---- MODULE Spec2Model ----
(***************************************************************************)
(* Model of the map viewer: the Map component (components/Map/Map.tsx),    *)
(* which owns all UI state, and the DrawControl component it mounts.       *)
(*                                                                         *)
(* One action is one event handler (or one continuation of an async        *)
(* handler after its await) together with the re-render React performs     *)
(* for the state it changed.  A re-render of Map re-runs the DrawControl   *)
(* effect, because Map passes it a fresh onSave / onDrawingComplete        *)
(* function on every render.                                               *)
(*                                                                         *)
(* A click handler may run without a preceding mousedown (a button that    *)
(* has focus is activated from the keyboard), so the document's mousedown  *)
(* listener and the buttons' onClick handlers are separate actions; a      *)
(* mouse click is a mousedown step followed by the onClick step.  No       *)
(* handler tests isLoading, so an indicator can be selected while an       *)
(* earlier selection is still loading.                                     *)
(***************************************************************************)
EXTENDS Integers, Sequences, FiniteSets, TLC

(* ---------------------------- bounds ----------------------------------- *)
\* DrawControl effect runs explored (1 at mount + one per re-render of Map)
MaxRenders == 7
\* pending setTimeout continuations of handleIndicatorSelect
MaxPending == 2
\* longest list the geocoding provider answers with
MaxProviderLen == 8

(* --------------------------- constants --------------------------------- *)
Undefined == "undefined"
WMS_URL == "https://sh.dataspace.copernicus.eu/ogc/wms/fd8fbb51-cfdf-460d-9839-6dc55ee39ffa"
KML_MIME == "application/vnd.google-earth.kml+xml"
KML_FILENAME == "area-selection.kml"
PLACEHOLDER_KML == "<kml>Placeholder KML content</kml>"
\* variant: the guard written as query.length <= 3
MIN_QUERY_LENGTH_Inclusive == 3 + 1
MIN_QUERY_LENGTH == 3
\* variant: useState(indicators[1])
DefaultIndicator_Second == 1 + 1
\* index in the catalog of the indicator useState starts with
DefaultIndicator == 1
MAX_RESULTS == 5
SELECT_ZOOM == 12

\* the indicator catalog; a field the literal does not set is Undefined
indicators ==
  << [name |-> "Natural Color",          type |-> "natural",  layer |-> Undefined],
     [name |-> "Chlorophyll-a",          type |-> Undefined,  layer |-> "CHLA"],
     [name |-> "Dissolved Oxygen",       type |-> Undefined,  layer |-> "DISSOLVED-OXYGEN"],
     [name |-> "Total Suspended Solids", type |-> Undefined,  layer |-> "TOTAL-SUSPENDED-SOLIDS"],
     [name |-> "Turbidity",              type |-> Undefined,  layer |-> "TURBIDITY"],
     [name |-> "Forest Fires",           type |-> "discrete", layer |-> "INCENDIOS-FORESTALES"] >>

\* the props App passes to Map: center [51.505, -0.09], zoom 13
\* (coordinates are in thousandths of a degree)
AppView == [center |-> <<51505, -90>>, zoom |-> 13]

(* ------------------------------ inputs --------------------------------- *)
\* texts the user leaves in the search box
Queries == {"ab", "gua", "guad"}

\* lengths of the lists the provider answers with
ProviderLens == {1, MaxProviderLen}

\* coordinate strings of the provider, as character sequences
LatStrings == << <<"2","0",".","2","7">>, <<"-","3",".","5">> >>
LonStrings == << <<"-","1","0","3",".","2">>, <<"4","5">> >>

\* the k-th place of the provider's answer to query q
Place(q, k) ==
  [display_name |-> <<q, k>>,
   lat |-> LatStrings[(k % 2) + 1],
   lon |-> LonStrings[(k % 2) + 1]]

\* the provider's answer to q when it holds n places
Provider(q, n) == [k \in 1..n |-> Place(q, k)]

\* what closest() finds for the target of a mousedown
Targets == {"date-picker-container", "date-button",
            "sensor-menu-container", "sensor-button", "other"}

(* ------------------------------ state ---------------------------------- *)
VARIABLES
  selectedIndicator, showDatePicker, showSensorMenu,
  isDrawing, selectedLayer, isLoading, showSearch, searchQuery,
  searchResults, isSearching,
  mapView,          \* center and zoom of the Leaflet map behind mapRef
  timers,           \* indicators whose 3000 ms timeout has not fired, oldest first
  inflight,         \* geocoding requests awaiting their response
  requestsIssued,   \* number of fetch calls made by handleSearch
  lastResponse,     \* the most recently completed geocoding request
  listeners,        \* CREATED listeners registered on the map
  drawnItems,       \* polygons in the FeatureGroup that is on the map
  lastExport,       \* downloads started by the most recent CREATED event
  nonNaturalChosen, \* a non-natural indicator has been selected at some point
  selections,       \* the last three arguments of handleIndicatorSelect
  lastClosed        \* the popovers the most recent mousedown closed

vars == <<selectedIndicator, showDatePicker, showSensorMenu,
          isDrawing, selectedLayer, isLoading, showSearch, searchQuery,
          searchResults, isSearching, mapView, timers, inflight,
          requestsIssued, lastResponse, listeners, drawnItems, lastExport,
          nonNaturalChosen, selections, lastClosed>>

shellVars == <<showDatePicker, showSensorMenu, lastClosed>>
indicatorVars == <<selectedIndicator, selectedLayer, isLoading, timers,
                   nonNaturalChosen, selections>>
searchVars == <<showSearch, searchQuery, searchResults, isSearching, mapView,
                inflight, requestsIssued, lastResponse>>
drawVars == <<isDrawing, lastExport>>

NoResponse == [id |-> 0, q |-> "", ok |-> TRUE, n |-> 0]

Init ==
  /\ selectedIndicator = DefaultIndicator
  /\ showDatePicker = FALSE
  /\ showSensorMenu = FALSE
  /\ isDrawing = FALSE
  /\ selectedLayer = ""
  /\ isLoading = FALSE
  /\ showSearch = FALSE
  /\ searchQuery = ""
  /\ searchResults = <<>>
  /\ isSearching = FALSE
  /\ mapView = AppView
  /\ timers = <<>>
  /\ inflight = <<>>
  /\ requestsIssued = 0
  /\ lastResponse = NoResponse
  /\ listeners = 1
  /\ drawnItems = 0
  /\ lastExport = <<>>
  /\ nonNaturalChosen = FALSE
  /\ selections = <<>>
  /\ lastClosed = {}

(* ------------------------- DrawControl effect -------------------------- *)
\* Map re-rendered: the effect's cleanup removes the control and the
\* FeatureGroup from the map but leaves the CREATED listener registered;
\* the effect then adds a new empty FeatureGroup and one more listener.
Rerender ==
  /\ listeners < MaxRenders
  /\ listeners' = listeners + 1
  /\ drawnItems' = 0

\* React re-renders only when a setter was given a value that differs
RenderIf(changed) ==
  IF changed THEN Rerender ELSE UNCHANGED <<listeners, drawnItems>>

(* --------------------------- View Shell -------------------------------- *)
ToggleDatePicker ==
  /\ showDatePicker' = ~showDatePicker
  /\ Rerender
  /\ UNCHANGED <<showSensorMenu, lastClosed>>
  /\ UNCHANGED <<indicatorVars, searchVars, drawVars>>

ToggleSensorMenu ==
  /\ showSensorMenu' = ~showSensorMenu
  /\ Rerender
  /\ UNCHANGED <<showDatePicker, lastClosed>>
  /\ UNCHANGED <<indicatorVars, searchVars, drawVars>>

\* variant: the triggers are not exempted
handleClickOutside_NoTriggers(target) ==
  /\ target = "date-picker-container" => showDatePicker
  /\ target = "sensor-menu-container" => showSensorMenu
  /\ showDatePicker' =
       IF target # "date-picker-container" THEN FALSE ELSE showDatePicker
  /\ showSensorMenu' =
       IF target # "sensor-menu-container" THEN FALSE ELSE showSensorMenu
  /\ RenderIf(showDatePicker' # showDatePicker \/ showSensorMenu' # showSensorMenu)
  /\ lastClosed' =
       {p \in {"date-picker"} : showDatePicker /\ ~showDatePicker'}
       \cup {p \in {"sensor-menu"} : showSensorMenu /\ ~showSensorMenu'}
  /\ UNCHANGED <<indicatorVars, searchVars, drawVars>>

\* the document's mousedown listener
handleClickOutside(target) ==
  /\ target = "date-picker-container" => showDatePicker
  /\ target = "sensor-menu-container" => showSensorMenu
  /\ showDatePicker' =
       IF target \notin {"date-picker-container", "date-button"}
       THEN FALSE ELSE showDatePicker
  /\ showSensorMenu' =
       IF target \notin {"sensor-menu-container", "sensor-button"}
       THEN FALSE ELSE showSensorMenu
  /\ RenderIf(showDatePicker' # showDatePicker \/ showSensorMenu' # showSensorMenu)
  /\ lastClosed' =
       {p \in {"date-picker"} : showDatePicker /\ ~showDatePicker'}
       \cup {p \in {"sensor-menu"} : showSensorMenu /\ ~showSensorMenu'}
  /\ UNCHANGED <<indicatorVars, searchVars, drawVars>>

(* --------------------------- Layer Binding ----------------------------- *)
\* indicator.layer || ''
LayerOrEmpty(indicator) ==
  IF indicator.layer = Undefined THEN "" ELSE indicator.layer

\* variant: the test on the indicator's type inverted
LayerFor_Inverted(indicator) ==
  IF indicator.type = "natural" THEN LayerOrEmpty(indicator) ELSE ""

\* the value handleIndicatorSelect gives setSelectedLayer after the delay
LayerFor(indicator) ==
  IF indicator.type # "natural" THEN LayerOrEmpty(indicator) ELSE ""

\* the props of the WMSTileLayer element
Descriptor(layerId) ==
  [url |-> WMS_URL, layers |-> layerId, format |-> "image/png",
   transparent |-> TRUE, version |-> "1.3.0"]

\* the WMSTileLayer elements Map renders: none or one
Overlay ==
  IF selectedLayer # "" /\ indicators[selectedIndicator].type # "natural"
  THEN {Descriptor(selectedLayer)}
  ELSE {}

LastThree(s) == IF Len(s) <= 3 THEN s ELSE SubSeq(s, Len(s) - 2, Len(s))

\* handleIndicatorSelect up to its await: the timeout is started
handleIndicatorSelect(i) ==
  /\ Len(timers) < MaxPending
  /\ isLoading' = TRUE
  /\ selectedIndicator' = i
  /\ timers' = Append(timers, i)
  /\ nonNaturalChosen' = (nonNaturalChosen \/ indicators[i].type # "natural")
  /\ selections' = LastThree(Append(selections, i))
  /\ RenderIf(~isLoading \/ selectedIndicator # i)
  /\ UNCHANGED selectedLayer
  /\ UNCHANGED <<shellVars, searchVars, drawVars>>

\* handleIndicatorSelect after its await: the oldest timeout fires
\* (timeouts of equal delay fire in the order they were started)
IndicatorLoaded ==
  /\ timers # <<>>
  /\ selectedLayer' = LayerFor(indicators[Head(timers)])
  /\ isLoading' = FALSE
  /\ timers' = Tail(timers)
  /\ RenderIf(selectedLayer' # selectedLayer \/ isLoading)
  /\ UNCHANGED <<selectedIndicator, nonNaturalChosen, selections>>
  /\ UNCHANGED <<shellVars, searchVars, drawVars>>

(* --------------------------- Search Adapter ---------------------------- *)
Min(a, b) == IF a < b THEN a ELSE b

\* variant: the element at index end is included
Slice_Inclusive(s, start, end) ==
  LET stop == Min(end + 1, Len(s))
  IN  IF stop <= start THEN <<>>
      ELSE [j \in 1..(stop - start) |-> s[start + j]]

\* Array.prototype.slice(start, end) for 0 <= start <= end
Slice(s, start, end) ==
  LET stop == Min(end, Len(s))
  IN  IF stop <= start THEN <<>>
      ELSE [j \in 1..(stop - start) |-> s[start + j]]

DigitChars == <<"0", "1", "2", "3", "4", "5", "6", "7", "8", "9">>
IsDigit(c) == \E d \in 1..10 : DigitChars[d] = c
DigitValue(c) == (CHOOSE d \in 1..10 : DigitChars[d] = c) - 1

\* the digits of s from position i on: <<their value, the position after them>>
RECURSIVE IntPart(_, _, _)
IntPart(s, i, acc) ==
  IF i <= Len(s) /\ IsDigit(s[i])
  THEN IntPart(s, i + 1, acc * 10 + DigitValue(s[i]))
  ELSE <<acc, i>>

\* the fraction digits of s from position i on, in thousandths
RECURSIVE FracPart(_, _, _, _)
FracPart(s, i, acc, unit) ==
  IF i <= Len(s) /\ IsDigit(s[i])
  THEN FracPart(s, i + 1, acc + DigitValue(s[i]) * unit, unit \div 10)
  ELSE <<acc, i>>

NaN == [nan |-> TRUE, milli |-> 0]

\* parseFloat on [sign] digits [. digits]; the number is kept in thousandths
ParseFloat(s) ==
  LET signed == Len(s) > 0 /\ s[1] \in {"-", "+"}
      start  == IF signed THEN 2 ELSE 1
      ip     == IntPart(s, start, 0)
      hasDot == ip[2] <= Len(s) /\ s[ip[2]] = "."
      fp     == IF hasDot THEN FracPart(s, ip[2] + 1, 0, 100) ELSE <<0, ip[2]>>
      seen   == ip[2] > start \/ (hasDot /\ fp[2] > ip[2] + 1)
      mag    == ip[1] * 1000 + fp[1]
  IN  IF ~seen THEN NaN
      ELSE [nan |-> FALSE, milli |-> IF signed /\ s[1] = "-" THEN -mag ELSE mag]

ToggleSearch ==
  /\ showSearch' = ~showSearch
  /\ Rerender
  /\ UNCHANGED <<searchQuery, searchResults, isSearching, mapView,
                 inflight, requestsIssued, lastResponse>>
  /\ UNCHANGED <<shellVars, indicatorVars, drawVars>>

\* handleSearch up to its await
handleSearch(query) ==
  IF Len(query) < MIN_QUERY_LENGTH
  THEN /\ searchResults' = <<>>
       /\ UNCHANGED <<isSearching, inflight, requestsIssued>>
  ELSE /\ isSearching' = TRUE
       /\ requestsIssued' = requestsIssued + 1
       /\ inflight' = Append(inflight, [id |-> requestsIssued + 1, q |-> query])
       /\ UNCHANGED searchResults

\* onChange of the search input
onChange(value) ==
  /\ showSearch
  /\ value # searchQuery
  /\ searchQuery' = value
  /\ handleSearch(value)
  /\ Rerender
  /\ UNCHANGED <<showSearch, mapView, lastResponse>>
  /\ UNCHANGED <<shellVars, indicatorVars, drawVars>>

RemoveAt(s, k) == [j \in 1..(Len(s) - 1) |-> IF j < k THEN s[j] ELSE s[j + 1]]

\* handleSearch after its awaits: request k was answered with n places
fetchResolved(k, n) ==
  /\ k \in 1..Len(inflight)
  /\ searchResults' = Slice(Provider(inflight[k].q, n), 0, MAX_RESULTS)
  /\ isSearching' = FALSE
  /\ inflight' = RemoveAt(inflight, k)
  /\ lastResponse' = [id |-> inflight[k].id, q |-> inflight[k].q, ok |-> TRUE, n |-> n]
  /\ Rerender
  /\ UNCHANGED <<showSearch, searchQuery, mapView, requestsIssued>>
  /\ UNCHANGED <<shellVars, indicatorVars, drawVars>>

\* variant: the catch block only logs
fetchRejected_KeepResults(k) ==
  /\ k \in 1..Len(inflight)
  /\ isSearching' = FALSE
  /\ inflight' = RemoveAt(inflight, k)
  /\ lastResponse' = [id |-> inflight[k].id, q |-> inflight[k].q, ok |-> FALSE, n |-> 0]
  /\ RenderIf(isSearching)
  /\ UNCHANGED <<showSearch, searchQuery, searchResults, mapView, requestsIssued>>
  /\ UNCHANGED <<shellVars, indicatorVars, drawVars>>

\* handleSearch after its await: request k failed, the catch block ran
fetchRejected(k) ==
  /\ k \in 1..Len(inflight)
  /\ searchResults' = <<>>
  /\ isSearching' = FALSE
  /\ inflight' = RemoveAt(inflight, k)
  /\ lastResponse' = [id |-> inflight[k].id, q |-> inflight[k].q, ok |-> FALSE, n |-> 0]
  /\ Rerender
  /\ UNCHANGED <<showSearch, searchQuery, mapView, requestsIssued>>
  /\ UNCHANGED <<shellVars, indicatorVars, drawVars>>

\* onClick of the X button of the search input
ClearSearch ==
  /\ showSearch
  /\ searchQuery # ""
  /\ searchQuery' = ""
  /\ searchResults' = <<>>
  /\ Rerender
  /\ UNCHANGED <<showSearch, isSearching, mapView, inflight, requestsIssued, lastResponse>>
  /\ UNCHANGED <<shellVars, indicatorVars, drawVars>>

\* onClick of the k-th result button (rendered while not searching); the
\* map exists by the time a result can be clicked, so mapRef.current is set
handleLocationSelect(k) ==
  /\ showSearch
  /\ ~isSearching
  /\ k \in 1..Len(searchResults)
  /\ LET lat == ParseFloat(searchResults[k].lat)
         lon == ParseFloat(searchResults[k].lon)
     IN  /\ ~lat.nan /\ ~lon.nan
         /\ mapView' = [center |-> <<lat.milli, lon.milli>>, zoom |-> SELECT_ZOOM]
  /\ showSearch' = FALSE
  /\ searchQuery' = ""
  /\ searchResults' = <<>>
  /\ Rerender
  /\ UNCHANGED <<isSearching, inflight, requestsIssued, lastResponse>>
  /\ UNCHANGED <<shellVars, indicatorVars, drawVars>>

(* -------------------------- Draw/Export Bridge ------------------------- *)
\* the download handleSaveKML starts
handleSaveKML(kml) == [type |-> KML_MIME, download |-> KML_FILENAME, body |-> kml]

\* onClick of the Select Area button
ToggleDrawing ==
  /\ isDrawing' = ~isDrawing
  /\ Rerender
  /\ UNCHANGED lastExport
  /\ UNCHANGED <<shellVars, indicatorVars, searchVars>>

\* the toolkit fires CREATED: every listener registered on the map runs
\* (adds the layer to its own FeatureGroup, calls onDrawingComplete and
\* onSave), then Map re-renders with isDrawing false
DrawCreated ==
  /\ isDrawing
  /\ lastExport' = [j \in 1..listeners |-> handleSaveKML(PLACEHOLDER_KML)]
  /\ isDrawing' = FALSE
  /\ Rerender
  /\ UNCHANGED <<shellVars, indicatorVars, searchVars>>

Next ==
  \/ ToggleDatePicker
  \/ ToggleSensorMenu
  \/ \E target \in Targets : handleClickOutside(target)
  \/ \E i \in 1..Len(indicators) : handleIndicatorSelect(i)
  \/ IndicatorLoaded
  \/ ToggleSearch
  \/ \E value \in Queries : onChange(value)
  \/ \E k \in 1..MaxRenders, n \in ProviderLens : fetchResolved(k, n)
  \/ \E k \in 1..MaxRenders : fetchRejected(k)
  \/ ClearSearch
  \/ \E k \in 1..MAX_RESULTS : handleLocationSelect(k)
  \/ ToggleDrawing
  \/ DrawCreated

Spec == Init /\ [][Next]_vars

(* ============================== claims ================================= *)

\* bind(indicator) of the Layer Binding contract: the descriptor for the
\* indicator's layer id when it is not natural and has a layer id, else none
Bind(indicator) ==
  IF indicator.type # "natural" /\ indicator.layer \notin {Undefined, ""}
  THEN {Descriptor(indicator.layer)}
  ELSE {}

\* C1: completing one polygon while drawing mode is true turns drawing mode
\* off and starts exactly one download, of MIME type
\* application/vnd.google-earth.kml+xml and file name area-selection.kml
C1_OneExportPerPolygon ==
  [][(isDrawing /\ DrawCreated) =>
       /\ ~isDrawing'
       /\ Len(lastExport') = 1
       /\ lastExport'[1].type = "application/vnd.google-earth.kml+xml"
       /\ lastExport'[1].download = "area-selection.kml"]_vars

\* C2: a change of the search text to fewer than 3 characters issues no
\* geocoding request and empties the result list; a change to 3 or more
\* characters issues exactly one request, for that text
C2_RequestThreshold ==
  [][\A value \in Queries :
       onChange(value) =>
         IF Len(value) < 3
         THEN /\ requestsIssued' = requestsIssued
              /\ inflight' = inflight
              /\ searchResults' = <<>>
         ELSE /\ requestsIssued' = requestsIssued + 1
              /\ Len(inflight') = Len(inflight) + 1
              /\ inflight'[Len(inflight')].q = value
              /\ \A j \in 1..Len(inflight) : inflight'[j] = inflight[j]]_vars

\* C2 witness: "gua" was typed and issued the one request there is, then
\* "ab" was typed, which issued none and left the result list empty
C2_Witness ==
  /\ searchQuery = "ab"
  /\ requestsIssued = 1
  /\ Len(inflight) = 1 /\ inflight[1].q = "gua"
  /\ searchResults = <<>>

\* C3: once no load delay is pending, the overlay on the map is
\* bind(last selected indicator)
C3_OverlaySettles ==
  LET last == IF selections = <<>> THEN DefaultIndicator ELSE selections[Len(selections)]
  IN  timers = <<>> => Overlay = Bind(indicators[last])

\* C3 witness: Chlorophyll-a, then Turbidity, then Chlorophyll-a were
\* selected, every delay has elapsed and the overlay is the CHLA descriptor
C3_Witness ==
  /\ selections = <<2, 5, 2>>
  /\ timers = <<>>
  /\ Overlay = {Descriptor("CHLA")}

\* C4: in every state the overlay on the map is the descriptor for the
\* selected indicator's layer id or absent, never another indicator's layer
C4_OverlayDerived == Overlay \subseteq Bind(indicators[selectedIndicator])

\* C5: once every request has completed, a result list that is shown is the
\* one returned for the most recently issued query
C5_LatestQueryWins ==
  (inflight = <<>> /\ searchResults # <<>>) =>
    /\ lastResponse.id = requestsIssued
    /\ searchResults[1].display_name[1] = lastResponse.q

\* C6: whenever the query text has fewer than 3 characters the result list
\* is empty
C6_ShortQueryNoResults == Len(searchQuery) < 3 => searchResults = <<>>

\* C7: a request that completes with a list of n places sets the result
\* list to its first min(n, 5) places in provider order, and the result
\* list never holds more than 5 places
C7_FirstFive ==
  /\ [][(Len(inflight') < Len(inflight) /\ lastResponse'.ok) =>
          LET n    == lastResponse'.n
              m    == IF n < 5 THEN n ELSE 5
          IN  /\ Len(searchResults') = m
              /\ \A j \in 1..m : searchResults'[j] = Place(lastResponse'.q, j)]_vars
  /\ [](Len(searchResults) <= 5)

\* C7 witness: a response of more than 5 places left exactly the first 5
C7_Witness ==
  /\ lastResponse.ok /\ lastResponse.n = MaxProviderLen /\ MaxProviderLen > 5
  /\ Len(searchResults) = 5
  /\ \A j \in 1..5 : searchResults[j].display_name = <<lastResponse.q, j>>

\* C8, as claimed: a mousedown outside both popovers and both triggers
\* closes both popovers, and a click on the trigger of an open popover
\* leaves it open
C8_TriggerKeepsOpen ==
  [][/\ handleClickOutside("other") => (~showDatePicker' /\ ~showSensorMenu')
     /\ (showDatePicker /\ ToggleDatePicker) => showDatePicker'
     /\ (showSensorMenu /\ ToggleSensorMenu) => showSensorMenu']_vars

\* C8, amended: a mousedown outside both popovers and both triggers closes
\* both popovers; a mousedown on a popover's own trigger leaves that popover
\* as it is; the trigger's click handler then toggles the popover
C8_OutsideClosesTriggerToggles ==
  [][/\ handleClickOutside("other") => (~showDatePicker' /\ ~showSensorMenu')
     /\ handleClickOutside("date-button") => showDatePicker' = showDatePicker
     /\ handleClickOutside("sensor-button") => showSensorMenu' = showSensorMenu
     /\ ToggleDatePicker => showDatePicker' = ~showDatePicker
     /\ ToggleSensorMenu => showSensorMenu' = ~showSensorMenu]_vars

\* C8 witness: both popovers were open and one mousedown closed them both
C8_Witness ==
  /\ lastClosed = {"date-picker", "sensor-menu"}
  /\ ~showDatePicker /\ ~showSensorMenu

\* C9: a failed request empties the result list, resets the in-flight flag
\* and changes nothing else the user sees; a further search is accepted
C9_SilentFailure ==
  /\ [][(Len(inflight') < Len(inflight) /\ ~lastResponse'.ok) =>
          /\ searchResults' = <<>>
          /\ isSearching' = FALSE
          /\ Overlay' = Overlay
          /\ UNCHANGED <<searchQuery, showSearch, selectedIndicator,
                         selectedLayer, isDrawing>>]_vars
  /\ []((~lastResponse.ok /\ showSearch /\ listeners < MaxRenders) =>
          \A value \in Queries \ {searchQuery} : ENABLED onChange(value))

\* C9 witness: a request failed, which reset the in-flight flag, and a
\* search made after the failure has set the flag again and is in flight
C9_Witness ==
  /\ ~lastResponse.ok
  /\ isSearching
  /\ \E j \in 1..Len(inflight) : inflight[j].id > lastResponse.id

\* C10: the catalog has 6 entries, the default selection is entry 0,
\* Natural Color, and no overlay is on the map until a non-natural indicator
\* has been chosen
C10_NoOverlayUntilChosen ==
  /\ Len(indicators) = 6
  /\ indicators[1].name = "Natural Color"
  /\ selections = <<>> => selectedIndicator = 1
  /\ ~nonNaturalChosen => Overlay = {}

\* C10 witness: a polygon was exported, a search was issued, the date picker
\* is open and Natural Color was selected again; still no overlay
C10_Witness ==
  /\ ~nonNaturalChosen
  /\ selections # <<>>
  /\ lastExport # <<>>
  /\ requestsIssued > 0
  /\ Overlay = {}

\* C11: once a completed polygon and the state updates it triggers have
\* been processed, the FeatureGroup that is on the map holds exactly that
\* polygon, and it never holds more than one
C11_PolygonRetained ==
  /\ [][(isDrawing /\ DrawCreated) => drawnItems' = 1]_vars
  /\ [](drawnItems <= 1)

\* C12: the in-flight flag is true exactly while a geocoding request is
\* outstanding
C12_FlagWhileOutstanding == isSearching = (inflight # <<>>)

\* C13: the loading indicator is shown exactly while the load delay of some
\* selection is pending
C13_LoadingWhilePending == isLoading = (timers # <<>>)

====
